---- MODULE Spec2Model ----
(***************************************************************************)
(* The scoring engine of the Cyber Risk Assessment Tool (src/scoring.py).  *)
(*                                                                         *)
(* Numbers.  Every score the engine returns is a Python float rounded to   *)
(* two decimals; it is held here as an integer number of hundredths        *)
(* (2.50 is 250).  Ratings, context factors and weights are integers.      *)
(*                                                                         *)
(* Mappings.  A Python dict iterates in insertion order, and the engine's  *)
(* results depend on that order (which exception comes first, how ties are *)
(* ranked), so domain_question_ids and domain_scores are sequences of      *)
(* records with pairwise distinct domains.  responses, context and the     *)
(* weight map are only looked up by key: they are functions.               *)
(*                                                                         *)
(* Exceptions.  A call's outcome is a record [raised, key, value]:         *)
(* raised = "None" and the value returned, or the Python exception raised  *)
(* (with the key of a KeyError) and no value.                              *)
(***************************************************************************)
EXTENDS Integers, Sequences, FiniteSets, TLC

VARIABLES call, session, before

vars == <<call, session, before>>

\* The call in progress: the function, its arguments and its outcome.
Call(f, a, r) == [fn |-> f, args |-> a, ret |-> r]

fn == call.fn

args == call.args

ret == call.ret

-----------------------------------------------------------------------------
(* Outcomes of a call *)

NoValue == <<>>

Returned(v) == [raised |-> "None", key |-> "", value |-> v]

Raised(e, k) == [raised |-> e, key |-> k, value |-> NoValue]

-----------------------------------------------------------------------------
(* Python's built-ins, as the engine uses them *)

RECURSIVE sum(_)
sum(s) == IF s = <<>> THEN 0 ELSE Head(s) + sum(Tail(s))

\* sum(d.values()) of a dict d, here a function.
RECURSIVE SumValuesOver(_, _)
SumValuesOver(d, keys) ==
    IF keys = {} THEN 0
    ELSE LET k == CHOOSE x \in keys : TRUE
         IN  d[k] + SumValuesOver(d, keys \ {k})

SumValues(d) == SumValuesOver(d, DOMAIN d)

\* round(x, 2) of a float x = n / d given in hundredths: the integer nearest
\* to n / d (d > 0).  When n / d lies exactly half way between two integers:
\*   - if every operand of the float evaluation is exact and the half-way
\*     value itself is a binary fraction (hundredths q + 1/2 with q % 25 = 12,
\*     that is .125, .375, .625 or .875), x is that value and Python's round
\*     goes to the even neighbour;
\*   - otherwise x carries a representation error and lies on one side or
\*     the other: either neighbour, as tie says.
TieModes == {"down", "up"}

RoundDiv(n, d, exact, tie) ==
    LET q == n \div d
        r == n % d
    IN  IF 2 * r < d THEN q
        ELSE IF 2 * r > d THEN q + 1
        ELSE IF exact /\ q % 25 = 12 THEN (IF q % 2 = 0 THEN q ELSE q + 1)
        ELSE IF tie = "up" THEN q + 1
        ELSE q

\* A score (hundredths) whose float is exact: a multiple of 0.25.
ExactFloat(c) == c % 25 = 0

-----------------------------------------------------------------------------
(* calculate_domain_scores *)

\* responses.get(qid, 2) in place of responses[qid]
RECURSIVE LookupDefault(_, _)
LookupDefault(responses, qids) ==
    IF qids = <<>> THEN Returned(<<>>)
    ELSE Returned(<<IF Head(qids) \in DOMAIN responses THEN responses[Head(qids)] ELSE 2>>
                  \o LookupDefault(responses, Tail(qids)).value)

\* [responses[qid] for qid in qids]: the ratings, or the first missing key.
RECURSIVE Lookup(_, _)
Lookup(responses, qids) ==
    IF qids = <<>> THEN Returned(<<>>)
    ELSE IF Head(qids) \notin DOMAIN responses THEN Raised("KeyError", Head(qids))
    ELSE LET rest == Lookup(responses, Tail(qids))
         IN  IF rest.raised # "None" THEN rest
             ELSE Returned(<<responses[Head(qids)]>> \o rest.value)

\* round(sum(scores) / len(scores), 2), in hundredths.  The operands are
\* integers.  A half-way quotient needs len divisible by 16, and one that is
\* no binary fraction len divisible by 80: none with the lists modelled
\* here, so the tie mode is never consulted.
Mean(scores) == RoundDiv(100 * sum(scores), Len(scores), TRUE, "down")

\* a domain without questions scored 0 in place of the division by len = 0
AverageOrZero(scores) == Returned(IF Len(scores) = 0 THEN 0 ELSE Mean(scores))

\* line 26: the division fails for an empty list
Average(scores) ==
    IF Len(scores) = 0 THEN Raised("ZeroDivisionError", "") ELSE Returned(Mean(scores))

RECURSIVE calculate_domain_scores(_, _)
calculate_domain_scores(responses, domain_question_ids) ==
    IF domain_question_ids = <<>> THEN Returned(<<>>)
    ELSE LET e      == Head(domain_question_ids)
             scores == Lookup(responses, e.qids)
         IN  IF scores.raised # "None" THEN scores
             ELSE LET average == Average(scores.value)
                  IN  IF average.raised # "None" THEN average
                      ELSE
                      LET rest == calculate_domain_scores(responses, Tail(domain_question_ids))
                      IN  IF rest.raised # "None" THEN rest
                          ELSE Returned(<<[domain |-> e.domain, score |-> average.value]>>
                                        \o rest.value)

-----------------------------------------------------------------------------
(* calculate_likelihood *)

\* domain_weights=None
None == [none |-> TRUE, map |-> <<>>]

Weights(m) == [none |-> FALSE, map |-> m]

Domains(domain_scores) == {domain_scores[i].domain : i \in DOMAIN domain_scores}

\* domain_weights.get(domain, 1)
Get(map, domain) == IF domain \in DOMAIN map THEN map[domain] ELSE 1

\* the loop with the score in place of the weakness 4 - score
RECURSIVE WeightedMaturity(_, _)
WeightedMaturity(domain_scores, map) ==
    IF domain_scores = <<>> THEN 0
    ELSE Head(domain_scores).score * Get(map, Head(domain_scores).domain)
         + WeightedMaturity(Tail(domain_scores), map)

\* the loop of lines 42-44: sum of weakness * weight over domain_scores
RECURSIVE WeightedWeakness(_, _)
WeightedWeakness(domain_scores, map) ==
    IF domain_scores = <<>> THEN 0
    ELSE (400 - Head(domain_scores).score) * Get(map, Head(domain_scores).domain)
         + WeightedWeakness(Tail(domain_scores), map)

AllExact(domain_scores) ==
    \A i \in DOMAIN domain_scores : ExactFloat(domain_scores[i].score)

\* line 39: sum(domain_weights.values())
TotalWeight(map) == SumValues(map)

calculate_likelihood(domain_scores, domain_weights, tie) ==
    LET map == IF domain_weights.none
               THEN [d \in Domains(domain_scores) |-> 1]
               ELSE domain_weights.map
        total_weight      == TotalWeight(map)
        weighted_weakness == WeightedWeakness(domain_scores, map)
    IN  IF total_weight = 0 THEN Raised("ZeroDivisionError", "")
        ELSE Returned(RoundDiv(weighted_weakness, total_weight,
                               AllExact(domain_scores), tie))

-----------------------------------------------------------------------------
(* calculate_impact *)

Factors == <<"data_sensitivity", "operational_dependency",
             "financial_exposure", "reputational_risk">>

\* sum(factors) / len(context): the context has a fifth key, charity_name
calculate_impact_over_context(context) ==
    LET factors == Lookup(context, Factors)
    IN  IF factors.raised # "None" THEN factors
        ELSE Returned(RoundDiv(100 * sum(factors.value), Cardinality(DOMAIN context),
                               FALSE, "down"))

calculate_impact(context) ==
    LET factors == Lookup(context, Factors)
    IN  IF factors.raised # "None" THEN factors
        ELSE Returned(RoundDiv(100 * sum(factors.value), Len(factors.value), TRUE, "down"))

-----------------------------------------------------------------------------
(* calculate_risk, risk_band *)

\* likelihood and impact added, not multiplied
calculate_risk_sum(likelihood, impact, tie) == likelihood + impact

\* round(likelihood * impact, 2): hundredths times hundredths, over 100.
calculate_risk(likelihood, impact, tie) ==
    RoundDiv(likelihood * impact, 100, ExactFloat(likelihood) /\ ExactFloat(impact), tie)

\* thresholds inclusive on the upper bound
risk_band_le(risk_score) ==
    IF risk_score <= 400 THEN "Low"
    ELSE IF risk_score <= 900 THEN "Medium"
    ELSE "High"

risk_band(risk_score) ==
    IF risk_score < 400 THEN "Low"
    ELSE IF risk_score < 900 THEN "Medium"
    ELSE "High"

-----------------------------------------------------------------------------
(* rank_weak_domains *)

\* list.sort(key=lambda x: x[1], reverse=True): stable, so an element goes
\* behind every element whose key is not smaller.
\* an unstable sort: the element goes before those of equal key
RECURSIVE InsertBeforeEqual(_, _)
InsertBeforeEqual(x, sorted) ==
    IF sorted = <<>> THEN <<x>>
    ELSE IF Head(sorted).weakness > x.weakness
         THEN <<Head(sorted)>> \o InsertBeforeEqual(x, Tail(sorted))
    ELSE <<x>> \o sorted

RECURSIVE Insert(_, _)
Insert(x, sorted) ==
    IF sorted = <<>> THEN <<x>>
    ELSE IF Head(sorted).weakness >= x.weakness THEN <<Head(sorted)>> \o Insert(x, Tail(sorted))
    ELSE <<x>> \o sorted

RECURSIVE SortDescending(_)
SortDescending(s) ==
    IF s = <<>> THEN <<>>
    ELSE Insert(s[Len(s)], SortDescending(SubSeq(s, 1, Len(s) - 1)))

\* round(4 - score, 2) of a two-decimal score is 4 - score.
Weaknesses(domain_scores) ==
    [i \in DOMAIN domain_scores |->
        [domain |-> domain_scores[i].domain, weakness |-> 400 - domain_scores[i].score]]

\* the list as built, without the sort of line 92
rank_unsorted(domain_scores) == Weaknesses(domain_scores)

rank_weak_domains(domain_scores) == SortDescending(Weaknesses(domain_scores))

-----------------------------------------------------------------------------
(* generate_recommendations *)

Recs(d) ==
    IF d = "Identify" THEN
        << "Create a simple inventory of key accounts, devices, and the types of sensitive data held (donor/beneficiary/finance).",
           "Clarify who can access what (even a basic spreadsheet of roles and access helps)." >>
    ELSE IF d = "Protect" THEN
        << "Enable multi-factor authentication on email, cloud storage and finance systems.",
           "Introduce short phishing awareness guidance for staff/volunteers and basic device hygiene (screen locks, updates)." >>
    ELSE IF d = "Detect" THEN
        << "Set up basic alerts (e.g., email login alerts) and encourage reporting of suspicious emails immediately.",
           "Check key accounts weekly for unusual activity (manual monitoring is still monitoring)." >>
    ELSE IF d = "Respond" THEN
        << "Write a one-page incident checklist: who to contact, how to reset passwords, how to isolate affected accounts.",
           "Decide who leads incident response (named person/role) and when to escalate to external IT help." >>
    ELSE IF d = "Recover" THEN
        << "Ensure backups exist, are protected, and test a basic restore process (even once a month).",
           "After any incident/near-miss, record what happened and one improvement action for next time." >>
    ELSE << >>

\* the two at the far end of the ranking selected
WeakestDomainsLast(ranked) ==
    IF Len(ranked) >= 2 THEN <<ranked[Len(ranked)].domain, ranked[Len(ranked) - 1].domain>>
    ELSE <<ranked[1].domain>>

\* only the weakest domain selected
WeakestDomainsOne(ranked) == <<ranked[1].domain>>

WeakestDomains(ranked) ==
    IF Len(ranked) >= 2 THEN <<ranked[1].domain, ranked[2].domain>>
    ELSE <<ranked[1].domain>>

RECURSIVE RecsFor(_)
RecsFor(ds) == IF ds = <<>> THEN <<>> ELSE Recs(Head(ds)) \o RecsFor(Tail(ds))

generate_recommendations(domain_scores) ==
    LET ranked == rank_weak_domains(domain_scores)
    IN  IF Len(ranked) = 0 THEN Raised("IndexError", "")
        ELSE Returned(RecsFor(WeakestDomains(ranked)))

-----------------------------------------------------------------------------
(* run_assessment *)

run_assessment(responses, domain_question_ids, context, domain_weights, tieL, tieR) ==
    LET domain_scores == calculate_domain_scores(responses, domain_question_ids)
    IN  IF domain_scores.raised # "None" THEN domain_scores
        ELSE
        LET likelihood == calculate_likelihood(domain_scores.value, domain_weights, tieL)
        IN  IF likelihood.raised # "None" THEN likelihood
            ELSE
            LET impact == calculate_impact(context)
            IN  IF impact.raised # "None" THEN impact
                ELSE
                LET risk == calculate_risk(likelihood.value, impact.value, tieR)
                    recs == generate_recommendations(domain_scores.value)
                IN  IF recs.raised # "None" THEN recs
                    ELSE Returned([domain_scores       |-> domain_scores.value,
                                   likelihood          |-> likelihood.value,
                                   impact              |-> impact.value,
                                   risk_score          |-> risk,
                                   risk_band           |-> risk_band(risk),
                                   weak_domain_ranking |-> rank_weak_domains(domain_scores.value),
                                   recommendations     |-> recs.value])

-----------------------------------------------------------------------------
(* The inputs the calls are drawn from *)

\* Bounds of the model.
MaxDomains == 2
MaxQ == 2
MaxWeight == 2

\* QUESTIONNAIRE's five domains (src/questionnaire.py), and "Govern", the
\* sixth function of NIST CSF 2.0, which the recommendation table lacks.
ReferenceDomains == {"Identify", "Protect", "Detect", "Respond", "Recover"}

DomainNames == {"Identify", "Protect", "Govern"}

QuestionIds(d) ==
    IF d = "Identify" THEN <<"ID1", "ID2", "ID3", "ID4">>
    ELSE IF d = "Protect" THEN <<"PR1", "PR2", "PR3", "PR4">>
    ELSE IF d = "Detect" THEN <<"DE1", "DE2", "DE3", "DE4">>
    ELSE IF d = "Respond" THEN <<"RS1", "RS2", "RS3", "RS4">>
    ELSE IF d = "Recover" THEN <<"RC1", "RC2", "RC3", "RC4">>
    ELSE <<"GV1", "GV2", "GV3", "GV4">>

\* The sliders of src/app.py offer 0..4; a caller of the engine can pass
\* anything, of which one value below and one above the range are kept.
InRange == 0..4

RatingValues == -1..5

\* The orders a dict of at most MaxDomains domains can iterate in.
DomainOrders ==
    {o \in UNION {[1..n -> DomainNames] : n \in 0..MaxDomains} :
        \A i, j \in DOMAIN o : i # j => o[i] # o[j]}

Entry(d, n) == [domain |-> d, qids |-> SubSeq(QuestionIds(d), 1, n)]

\* domain_question_ids: each domain with its first n question ids, n from lo.
GroupingsFrom(lo) ==
    UNION {{[i \in DOMAIN o |-> Entry(o[i], n[i])] : n \in [DOMAIN o -> lo..MaxQ]} :
           o \in DomainOrders}

Groupings == GroupingsFrom(0)

\* Non-empty groupings of non-empty domains.
ProperGroupings == {g \in GroupingsFrom(1) : g # <<>>}

\* Groupings of one question per domain: the maturity is the rating.
UnitGroupings == {g \in ProperGroupings : \A i \in DOMAIN g : Len(g[i].qids) = 1}

\* The grouping of the first MaxDomains reference domains, MaxQ questions each.
ReferenceOrder == <<"Identify", "Protect", "Detect", "Respond", "Recover">>

ReferenceGrouping == [i \in 1..MaxDomains |-> Entry(ReferenceOrder[i], MaxQ)]

\* DOMAIN_QUESTION_IDS: the five domains of the catalogue, each with all its
\* questions.
DOMAIN_QUESTION_IDS ==
    [i \in DOMAIN ReferenceOrder |->
        Entry(ReferenceOrder[i], Len(QuestionIds(ReferenceOrder[i])))]

QidsOf(g) == UNION {{g[i].qids[j] : j \in DOMAIN g[i].qids} : i \in DOMAIN g}

\* Dicts over some of the keys, with values from vals.
PartialMaps(keys, vals) == UNION {[S -> vals] : S \in SUBSET keys}

\* Every rating of g's questions set to what its domain gets from m.
PerDomain(g, m) ==
    [q \in QidsOf(g) |->
        m[CHOOSE i \in DOMAIN g : \E j \in DOMAIN g[i].qids : g[i].qids[j] = q]]

FactorNames == {Factors[i] : i \in DOMAIN Factors}

\* default_charity_context()
default_charity_context ==
    [k \in FactorNames \cup {"charity_name"} |-> IF k = "charity_name" THEN "" ELSE 2]

Context(c) ==
    [k \in DOMAIN c \cup {"charity_name"} |-> IF k = "charity_name" THEN "" ELSE c[k]]

\* The default context, whole or without one of its factors.
DefaultOrLacking ==
    {default_charity_context} \cup
    {Context([f \in FactorNames \ {x} |-> 2]) : x \in FactorNames}

\* The default context without its last factor.
LackingLast == Context([f \in FactorNames \ {Factors[Len(Factors)]} |-> 2])

\* domain_weights: none, or a weight for some of the domain names, each
\* zero, one or the largest.
WeightMaps == {None} \cup {Weights(m) : m \in PartialMaps(DomainNames, {0, 1, MaxWeight})}

Input(r, g, c, w) ==
    [responses |-> r, domain_question_ids |-> g, context |-> c, domain_weights |-> w]

\* Every rating m: the argument of PerDomain for a constant response set.
Constant(g, m) == PerDomain(g, [i \in DOMAIN g |-> m])

\* The means calculate_domain_scores can produce from at most MaxQ ratings.
Scores ==
    UNION {{Mean([j \in 1..n |-> IF j <= s % n THEN s \div n + 1 ELSE s \div n]) :
                s \in 0..(4 * n)} : n \in 1..MaxQ}

\* domain_scores: at most MaxDomains domains in some order, each with a score.
DomainScores ==
    UNION {{[i \in DOMAIN o |-> [domain |-> o[i], score |-> s[i]]] :
                s \in [DOMAIN o -> Scores]} : o \in DomainOrders}

\* domain_scores in which every score is a whole number.
WholeScores == {s \in DomainScores : \A i \in DOMAIN s : s[i].score % 100 = 0}

-----------------------------------------------------------------------------
(* The session of src/app.py: st.session_state and the widgets' values *)

\* Python's None, or a value.
Nothing == [none |-> TRUE, some |-> <<>>]

Some(v) == [none |-> FALSE, some |-> v]

\* The interactions of one session.
MaxInteractions == 4

\* context_templates()
context_templates(t) ==
    IF t = "Micro charity" THEN
        [data_sensitivity |-> 2, operational_dependency |-> 2,
         financial_exposure |-> 1, reputational_risk |-> 2]
    ELSE IF t = "Small charity" THEN
        [data_sensitivity |-> 3, operational_dependency |-> 3,
         financial_exposure |-> 2, reputational_risk |-> 3]
    ELSE
        [data_sensitivity |-> 3, operational_dependency |-> 4,
         financial_exposure |-> 3, reputational_risk |-> 4]

Custom == "Custom (enter your own)"

TemplateChoices == {Custom, "Micro charity", "Small charity", "Medium charity"}

\* ctx as built before the sliders: the defaults, updated by the template.
TemplateContext(t) ==
    IF t = Custom THEN default_charity_context ELSE Context(context_templates(t))

Tabs == {"Assessment", "Results", "About"}

\* The question sliders the user moves, and where to.
Touched == {"ID1", "RC4"}

SliderStops == {0, 4}

\* The first run of the script: no result, every question at 2, the default
\* context, the first tab.  now is the clock, one tick an interaction.
InitialSession ==
    [now             |-> 0,
     tab             |-> "Assessment",
     template_choice |-> Custom,
     ctx             |-> default_charity_context,
     responses       |-> Constant(DOMAIN_QUESTION_IDS, 2),
     last_calculated |-> Nothing,
     result          |-> Nothing]

\* A script that scores on every run, whatever started it.
AfterRerunAlways(s, clicked, tie) ==
    LET outcome == run_assessment(s.responses, DOMAIN_QUESTION_IDS, s.ctx, None, "down", tie)
    IN  IF outcome.raised = "None"
        THEN [s EXCEPT !.result = Some(outcome.value), !.last_calculated = Some(s.now)]
        ELSE s

\* One run of the script on the widget values s: the result is computed
\* and stored only in the run the button's click starts.  An exception
\* of the engine ends the run before anything is stored.
AfterRerun(s, clicked, tie) ==
    LET outcome == run_assessment(s.responses, DOMAIN_QUESTION_IDS, s.ctx, None, "down", tie)
    IN  IF clicked /\ outcome.raised = "None"
        THEN [s EXCEPT !.result = Some(outcome.value), !.last_calculated = Some(s.now)]
        ELSE s

\* The download of the Results tab (lines 227-234).
export_payload(s) ==
    [last_calculated_utc |-> s.last_calculated,
     charity_context     |-> s.ctx,
     responses           |-> s.responses,
     result              |-> s.result]

-----------------------------------------------------------------------------
(* The calls.  The engine keeps no state between calls: a call is made     *)
(* from the idle state, and its outcome is handed back before the next.    *)

Idle == "idle"

Init ==
    /\ call = Call(Idle, <<>>, <<>>)
    /\ session = InitialSession
    /\ before = Call(Idle, <<>>, <<>>)

CallRiskBand ==
    /\ fn = Idle
    /\ \E risk_score \in 0..1600 :
         /\ call' = Call("risk_band",
                      [risk_score |-> risk_score],
                      Returned(risk_band(risk_score)))
    /\ UNCHANGED <<session, before>>

\* A call in which every domain score is a whole number and the weights sum
\* to less than 40, or which scores a single domain, never consults the tie
\* mode of the likelihood, and one in which the likelihood or the impact is
\* a whole number never that of the risk score: no quotient is half-way
\* between two neighbours unless it is an exact binary fraction.  One mode
\* then stands for both.
Exact == {"down"}

LikelihoodOf(domain_scores, domain_weights, ties) ==
    \E tie \in ties :
        /\ call' = Call("calculate_likelihood",
                     [domain_scores |-> domain_scores, domain_weights |-> domain_weights],
                     calculate_likelihood(domain_scores, domain_weights, tie))

CallCalculateLikelihood ==
    /\ fn = Idle
    /\ \* any scores; no weights, or the same weight for every domain name
       \/ \E domain_scores \in DomainScores :
          \E domain_weights \in {None, Weights([d \in DomainNames |-> MaxWeight])} :
            LikelihoodOf(domain_scores, domain_weights, TieModes)
       \* whole-number scores; any weight map
       \/ \E domain_scores \in WholeScores : \E domain_weights \in WeightMaps :
            LikelihoodOf(domain_scores, domain_weights, Exact)
    /\ UNCHANGED <<session, before>>

CallRankWeakDomains ==
    /\ fn = Idle
    /\ \E domain_scores \in DomainScores :
         /\ call' = Call("rank_weak_domains",
                      [domain_scores |-> domain_scores],
                      Returned(rank_weak_domains(domain_scores)))
    /\ UNCHANGED <<session, before>>

CallGenerateRecommendations ==
    /\ fn = Idle
    /\ \E domain_scores \in WholeScores :
         /\ call' = Call("generate_recommendations",
                      [domain_scores |-> domain_scores],
                      generate_recommendations(domain_scores))
    /\ UNCHANGED <<session, before>>

\* tiesL: the tie modes of the likelihood; tiesR: of the risk score.
RunWith(r, g, c, w, tiesL, tiesR) ==
    \E tieL \in tiesL, tieR \in tiesR :
        /\ call' = Call("run_assessment",
                     Input(r, g, c, w),
                     run_assessment(r, g, c, w, tieL, tieR))

CallRunAssessment ==
    /\ fn = Idle
    /\ \* one domain, any ratings present or absent; the default context
       \/ \E g \in {g \in Groupings : Len(g) = 1} :
          \E r \in PartialMaps(QidsOf(g), RatingValues) :
            RunWith(r, g, default_charity_context, None, Exact, Exact)
       \* domains with questions, one rating per domain; the default context
       \/ \E g \in ProperGroupings : \E m \in [DOMAIN g -> RatingValues] :
            RunWith(PerDomain(g, m), g, default_charity_context, None, Exact, Exact)
       \* the same rating everywhere; any factors, present or absent
       \/ \E m \in InRange : \E c \in PartialMaps(FactorNames, RatingValues) :
            RunWith(Constant(ReferenceGrouping, m), ReferenceGrouping, Context(c), None,
                    Exact, Exact)
       \* the same rating everywhere and the same value for every factor
       \/ \E g \in ProperGroupings : \E m \in InRange, k \in RatingValues :
            RunWith(Constant(g, m), g, Context([f \in FactorNames |-> k]), None,
                    Exact, Exact)
       \* one question and one rating per domain, any weight map
       \/ \E g \in UnitGroupings : \E m \in [DOMAIN g -> InRange], w \in WeightMaps :
            RunWith(PerDomain(g, m), g, default_charity_context, w, Exact, Exact)
       \* questions answered with the default (src/app.py:112) or not at
       \* all, domains with or without questions, a factor absent or none
       \/ \E g \in Groupings : \E r \in PartialMaps(QidsOf(g), {2}),
                                  c \in {default_charity_context, LackingLast} :
            RunWith(r, g, c, None, Exact, Exact)
       \* every question answered with the default, the same weight for
       \* every domain name, a factor absent or none
       \/ \E g \in Groupings : \E c \in DefaultOrLacking,
                                  w \in {None, Weights([d \in DomainNames |-> 0]),
                                        Weights([d \in DomainNames |-> MaxWeight])} :
            RunWith(Constant(g, 2), g, c, w, Exact, Exact)
       \* the catalogue, one rating per domain; the default context
       \/ \E m \in [DOMAIN DOMAIN_QUESTION_IDS -> InRange] :
            RunWith(PerDomain(DOMAIN_QUESTION_IDS, m), DOMAIN_QUESTION_IDS,
                    default_charity_context, None, Exact, Exact)
       \* the catalogue, one rating for one domain and one for the others;
       \* the same value for every factor
       \/ \E i \in DOMAIN DOMAIN_QUESTION_IDS : \E lo \in InRange, hi \in InRange, k \in InRange :
            RunWith(PerDomain(DOMAIN_QUESTION_IDS,
                              [j \in DOMAIN DOMAIN_QUESTION_IDS |-> IF j = i THEN lo ELSE hi]),
                    DOMAIN_QUESTION_IDS, Context([f \in FactorNames |-> k]), None,
                    Exact, Exact)
    /\ UNCHANGED <<session, before>>

\* The caller takes the outcome (or the exception): nothing is kept.
Return ==
    /\ fn # Idle
    /\ call' = Call(Idle, <<>>, <<>>)
    /\ UNCHANGED <<session, before>>

Next ==
    \/ CallRiskBand
    \/ CallCalculateLikelihood
    \/ CallRankWeakDomains
    \/ CallGenerateRecommendations
    \/ CallRunAssessment
    \/ Return

Spec == Init /\ [][Next]_vars

-----------------------------------------------------------------------------
(* The interactions of a session.  Streamlit runs the whole script again   *)
(* on every change of a widget; the engine is called inside that run.      *)

\* A question slider is moved (lines 127-132).
MoveQuestionSlider ==
    /\ session.now < MaxInteractions
    /\ \E q \in Touched : \E v \in SliderStops \ {session.responses[q]} :
         session' = AfterRerun([session EXCEPT !.responses[q] = v, !.now = @ + 1],
                               FALSE, "down")
    /\ UNCHANGED <<call, before>>

\* A slider of the sidebar is moved (lines 72-95).
MoveContextSlider ==
    /\ session.now < MaxInteractions
    /\ \E f \in FactorNames : \E v \in SliderStops \ {session.ctx[f]} :
         session' = AfterRerun([session EXCEPT !.ctx[f] = v, !.now = @ + 1],
                               FALSE, "down")
    /\ UNCHANGED <<call, before>>

\* A template is chosen (lines 58-69).  The sliders are keyed widgets given
\* new default values: whether they keep their values or take the
\* defaults is Streamlit's, so either may happen.
ChooseTemplate ==
    /\ session.now < MaxInteractions
    /\ \E t \in TemplateChoices \ {session.template_choice} :
       \E c \in {session.ctx, TemplateContext(t)} :
         session' = AfterRerun([session EXCEPT !.template_choice = t, !.ctx = c,
                                               !.now = @ + 1],
                               FALSE, "down")
    /\ UNCHANGED <<call, before>>

\* Another tab is opened (line 100): the script is not run.
SwitchTab ==
    /\ session.now < MaxInteractions
    /\ \E t \in Tabs \ {session.tab} :
         session' = [session EXCEPT !.tab = t, !.now = @ + 1]
    /\ UNCHANGED <<call, before>>

\* "Calculate risk score" is clicked (lines 142-148).
ClickCalculate ==
    /\ session.now < MaxInteractions
    /\ session.tab = "Results"
    /\ \E tie \in TieModes :
         session' = AfterRerun([session EXCEPT !.now = @ + 1], TRUE, tie)
    /\ UNCHANGED <<call, before>>

SessionNext ==
    \/ MoveQuestionSlider
    \/ MoveContextSlider
    \/ ChooseTemplate
    \/ SwitchTab
    \/ ClickCalculate

SessionSpec == Init /\ [][SessionNext]_vars

-----------------------------------------------------------------------------
(* Two assessments of one organisation: the second after one rating was    *)
(* raised.  before is a history variable: the call the current one         *)
(* follows, idle when it follows none.                                      *)

\* One domain of one to MaxQ questions; two domains of two and one; the
\* catalogue.
CompareGroupings ==
    {<<Entry("Identify", n)>> : n \in 1..MaxQ}
        \cup {<<Entry("Identify", 2), Entry("Protect", 1)>>, DOMAIN_QUESTION_IDS}

\* The contexts of the comparison: every factor the same, and the templates.
CompareContexts ==
    {Context([f \in FactorNames |-> k]) : k \in {0, 2, 4}}
        \cup {TemplateContext(t) : t \in TemplateChoices}

\* The ratings that get changed: any of a small grouping, two of the catalogue.
Changing(g) == IF g = DOMAIN_QUESTION_IDS THEN Touched ELSE QidsOf(g)

\* A first assessment: every question rated in range (the catalogue with
\* one rating throughout), no weights.
AssessFirst ==
    /\ fn = Idle
    /\ \E g \in CompareGroupings : \E c \in CompareContexts :
       \E r \in IF g = DOMAIN_QUESTION_IDS
                THEN {Constant(g, m) : m \in InRange}
                ELSE [QidsOf(g) -> InRange] :
         RunWith(r, g, c, None, TieModes, TieModes)
    /\ before' = Call(Idle, <<>>, <<>>)
    /\ UNCHANGED session

\* The assessment is run again with one rating higher and all else the same.
AssessRaised ==
    /\ fn = "run_assessment"
    /\ ret.raised = "None"
    /\ \E q \in Changing(args.domain_question_ids) :
       \E v \in {v \in InRange : v > args.responses[q]} :
         RunWith([args.responses EXCEPT ![q] = v], args.domain_question_ids,
                 args.context, args.domain_weights, TieModes, TieModes)
    /\ before' = call
    /\ UNCHANGED session

\* Both outcomes are dropped.
Forget ==
    /\ fn # Idle
    /\ call' = Call(Idle, <<>>, <<>>)
    /\ before' = Call(Idle, <<>>, <<>>)
    /\ UNCHANGED session

MonotoneNext ==
    \/ AssessFirst
    \/ AssessRaised
    \/ Forget

MonotoneSpec == Init /\ [][MonotoneNext]_vars

-----------------------------------------------------------------------------
(* Vocabulary of the properties *)

IsRun == fn = "run_assessment"

\* Every question identifier of the grouping has a rating.
AllAnswered(r, g) == QidsOf(g) \subseteq DOMAIN r

Unanswered(r, g) == QidsOf(g) \ DOMAIN r

HasEmptyDomain(g) == \E i \in DOMAIN g : Len(g[i].qids) = 0

\* A non-empty grouping of non-empty domains.
Proper(g) == g # <<>> /\ ~HasEmptyDomain(g)

ContextComplete(c) == FactorNames \subseteq DOMAIN c

PositiveWeights(w) == w.none \/ \A d \in DOMAIN w.map : w.map[d] > 0

\* The weight the likelihood applies to a scored domain: the supplied
\* weight, or 1 for a domain the map omits (and for every domain without a map).
AppliedWeight(w, d) == IF w.none THEN 1 ELSE Get(w.map, d)

TotalWeightApplied(domain_scores, w) ==
    sum([i \in DOMAIN domain_scores |-> AppliedWeight(w, domain_scores[i].domain)])

\* The error kinds of the specification, as the Python exceptions that
\* carry them: a KeyError naming a question identifier is MissingResponse;
\* a division by zero, or a KeyError naming a context factor, is
\* InvalidConfiguration.  The engine has no exception for OutOfRangeValue.
MissingResponse(out, r, g) == out.raised = "KeyError" /\ out.key \in Unanswered(r, g)

InvalidConfiguration(out) ==
    \/ out.raised = "ZeroDivisionError"
    \/ out.raised = "KeyError" /\ out.key \in FactorNames

\* The call failed: an exception reached the caller and no result exists.
Failed(out) == out.raised # "None" /\ out.value = NoValue

-----------------------------------------------------------------------------
(* C1 *)

\* C1: risk_band maps every risk score of the two-decimal grid in [0, 16] to
\* exactly one band, by half-open thresholds: Low below 4, Medium from 4 and
\* below 9, High from 9 (so 3.99 Low, 4.00 Medium, 8.99 Medium, 9.00 High,
\* 16.00 High).
C1_RiskBandThresholds ==
    fn = "risk_band" =>
        /\ ret.raised = "None"
        /\ ret.value \in {"Low", "Medium", "High"}
        /\ ret.value = "Low" <=> args.risk_score < 400
        /\ ret.value = "Medium" <=> (400 <= args.risk_score /\ args.risk_score < 900)
        /\ ret.value = "High" <=> args.risk_score >= 900

C1_Witness == fn = "risk_band" /\ args.risk_score = 400 /\ ret.value = "Medium"

-----------------------------------------------------------------------------
(* C2 *)

InBounds(result) ==
    /\ \A i \in DOMAIN result.domain_scores : result.domain_scores[i].score \in 0..400
    /\ \A i \in DOMAIN result.weak_domain_ranking :
         result.weak_domain_ranking[i].weakness \in 0..400
    /\ result.likelihood \in 0..400
    /\ result.impact \in 0..400
    /\ result.risk_score \in 0..1600

\* C2: for every run_assessment call whose ratings and four context factors
\* are integers in [0, 4] and whose domains are non-empty, without a weight
\* map or with any weight map of positive weights, every domain maturity and
\* every weakness of the ranking is in [0, 4], likelihood and impact are in
\* [0, 4] and the risk score is in [0, 16].
C2_ResultInBounds ==
    ( /\ IsRun
      /\ Proper(args.domain_question_ids)
      /\ AllAnswered(args.responses, args.domain_question_ids)
      /\ \A q \in DOMAIN args.responses : args.responses[q] \in InRange
      /\ ContextComplete(args.context)
      /\ \A f \in FactorNames : args.context[f] \in InRange
      /\ PositiveWeights(args.domain_weights)
      /\ ret.raised = "None" )
    => InBounds(ret.value)

-----------------------------------------------------------------------------
(* C3 *)

\* C3: if any rating of the response set or any of the four context factors
\* lies outside [0, 4], run_assessment rejects the input and returns no
\* result: it never computes a score from the value.  (Stated for any
\* failure at all, whatever its kind.)
C3_OutOfRangeRejected ==
    ( /\ IsRun
      /\ \/ \E q \in DOMAIN args.responses : args.responses[q] \notin InRange
         \/ \E f \in FactorNames \cap DOMAIN args.context : args.context[f] \notin InRange )
    => Failed(ret)

-----------------------------------------------------------------------------
(* C4 *)

\* C4, as claimed: if the response set lacks an entry for a question
\* identifier the grouping references, run_assessment fails with
\* MissingResponse.
C4_MissingResponseAlways ==
    (IsRun /\ ~AllAnswered(args.responses, args.domain_question_ids))
    => MissingResponse(ret, args.responses, args.domain_question_ids)

\* The first domain, in iteration order, that has no questions or a question
\* without a rating.
FirstFaulty(r, g) ==
    CHOOSE i \in DOMAIN g :
        /\ Len(g[i].qids) = 0 \/ \E j \in DOMAIN g[i].qids : g[i].qids[j] \notin DOMAIN r
        /\ \A h \in 1..(i - 1) :
             /\ Len(g[h].qids) > 0
             /\ \A j \in DOMAIN g[h].qids : g[h].qids[j] \in DOMAIN r

FirstUnanswered(r, qids) ==
    qids[CHOOSE j \in DOMAIN qids :
            qids[j] \notin DOMAIN r /\ \A k \in 1..(j - 1) : qids[k] \in DOMAIN r]

\* C4, amended: if the response set lacks an entry for a question identifier
\* the grouping references, run_assessment fails and returns no result (no
\* default rating, no average over the ratings present).  The failure is
\* MissingResponse, the KeyError naming the first missing identifier in
\* iteration order, unless a domain without questions is iterated before
\* the first domain with a missing identifier: then it is the division by
\* zero of that empty domain.
C4_MissingResponseFails ==
    (IsRun /\ ~AllAnswered(args.responses, args.domain_question_ids)) =>
        LET r == args.responses
            g == args.domain_question_ids
            i == FirstFaulty(r, g)
        IN  /\ Failed(ret)
            /\ IF Len(g[i].qids) = 0
               THEN ret = Raised("ZeroDivisionError", "")
               ELSE /\ ret = Raised("KeyError", FirstUnanswered(r, g[i].qids))
                    /\ MissingResponse(ret, r, g)

\* One of a domain's two questions has a rating, the other has none: the
\* call fails naming the other, and no average of the one is returned.
C4_Witness ==
    /\ IsRun
    /\ \E i \in DOMAIN args.domain_question_ids :
         LET qids == args.domain_question_ids[i].qids
         IN  /\ Len(qids) = 2
             /\ qids[1] \in DOMAIN args.responses
             /\ qids[2] \notin DOMAIN args.responses
             /\ ret = Raised("KeyError", qids[2])

-----------------------------------------------------------------------------
(* C5 *)

\* C5: calculate_likelihood never returns a value when the total weight
\* applied to the scored domains is zero: if the weight map gives weight 0
\* to every scored domain, or no domain is scored, the call fails, whatever
\* other keys the weight map has.
C5_ZeroWeightFails ==
    ( /\ fn = "calculate_likelihood"
      /\ \/ args.domain_scores = <<>>
         \/ /\ ~args.domain_weights.none
            /\ \A d \in Domains(args.domain_scores) :
                 d \in DOMAIN args.domain_weights.map /\ args.domain_weights.map[d] = 0 )
    => Failed(ret)

-----------------------------------------------------------------------------
(* C6 *)

Misconfigured(g, c) == HasEmptyDomain(g) \/ ~ContextComplete(c)

\* C6, as claimed: run_assessment fails with InvalidConfiguration whenever a
\* domain of the grouping has no questions or the context lacks one of the
\* four factors.
C6_InvalidConfigurationAlways ==
    (IsRun /\ Misconfigured(args.domain_question_ids, args.context))
    => InvalidConfiguration(ret)

\* A question without a rating is met before any domain without questions.
UnansweredFirst(r, g) ==
    \E i \in DOMAIN g :
        /\ \E j \in DOMAIN g[i].qids : g[i].qids[j] \notin DOMAIN r
        /\ \A h \in 1..(i - 1) : Len(g[h].qids) > 0

\* C6, amended: whenever a domain of the grouping has no questions or the
\* context lacks one of the four factors, run_assessment fails and produces
\* no result; the failure reaches the caller.  It is InvalidConfiguration,
\* unless the response set lacks a rating for a question of a domain that no
\* empty domain precedes in iteration order: then it is that
\* MissingResponse.
C6_MisconfigurationFails ==
    (IsRun /\ Misconfigured(args.domain_question_ids, args.context)) =>
        /\ Failed(ret)
        /\ IF UnansweredFirst(args.responses, args.domain_question_ids)
           THEN MissingResponse(ret, args.responses, args.domain_question_ids)
           ELSE InvalidConfiguration(ret)

\* Every question answered, every domain with questions, one factor absent:
\* the call fails naming the factor.
C6_Witness ==
    /\ IsRun
    /\ Proper(args.domain_question_ids)
    /\ AllAnswered(args.responses, args.domain_question_ids)
    /\ FactorNames \ DOMAIN args.context = {"financial_exposure"}
    /\ ret = Raised("KeyError", "financial_exposure")

-----------------------------------------------------------------------------
(* C7 *)

\* C7: for every weight map of positive weights, calculate_likelihood
\* returns round(sum_d w_d * (4 - maturity_d) / sum_d w_d, 2), numerator and
\* denominator over the same scored domains with the same applied weight
\* w_d (the supplied weight, or 1 for a domain the map omits); the weights
\* of domains that are not scored do not enter the denominator.
C7_NormalisedByAppliedWeights ==
    ( /\ fn = "calculate_likelihood"
      /\ args.domain_scores # <<>>
      /\ PositiveWeights(args.domain_weights) ) =>
        LET scores == args.domain_scores
            w      == args.domain_weights
            map    == [d \in Domains(scores) |-> AppliedWeight(w, d)]
        IN  /\ ret.raised = "None"
            /\ \E tie \in TieModes :
                 ret.value = RoundDiv(WeightedWeakness(scores, map),
                                      TotalWeightApplied(scores, w), AllExact(scores), tie)

-----------------------------------------------------------------------------
(* C8 *)

\* Every rating is m, every factor is k, no weight map, a proper grouping.
ConstantCall(m, k) ==
    /\ IsRun
    /\ args.domain_weights.none
    /\ \A q \in DOMAIN args.responses : args.responses[q] = m
    /\ ContextComplete(args.context)
    /\ \A f \in FactorNames : args.context[f] = k
    /\ Proper(args.domain_question_ids)
    /\ AllAnswered(args.responses, args.domain_question_ids)

\* C8: for every m and k in 0..4 and every non-empty grouping of non-empty
\* domains, if every rating is m and all four factors are k (no weight map),
\* run_assessment returns maturity m for every domain, likelihood 4 - m,
\* impact k and risk score (4 - m) * k.
C8_ConstantRatings ==
    \A m \in InRange, k \in InRange :
        ConstantCall(m, k) =>
            /\ ret.raised = "None"
            /\ Len(ret.value.domain_scores) = Len(args.domain_question_ids)
            /\ \A i \in DOMAIN ret.value.domain_scores :
                 /\ ret.value.domain_scores[i].domain = args.domain_question_ids[i].domain
                 /\ ret.value.domain_scores[i].score = 100 * m
            /\ ret.value.likelihood = 100 * (4 - m)
            /\ ret.value.impact = 100 * k
            /\ ret.value.risk_score = 100 * (4 - m) * k

\* Two domains of two questions, every rating 1 and every factor 3: 9.00.
C8_Witness ==
    /\ ConstantCall(1, 3)
    /\ Len(args.domain_question_ids) = 2
    /\ \A i \in DOMAIN args.domain_question_ids : Len(args.domain_question_ids[i].qids) = 2
    /\ ret.raised = "None"
    /\ ret.value.risk_score = 900

-----------------------------------------------------------------------------
(* C9 *)

\* C9: rank_weak_domains returns a sequence that holds every domain of the
\* maturity map exactly once, pairs each with weakness 4 - maturity, and is
\* sorted by weakness descending: no element is weaker than its predecessor.
C9_RankingSorted ==
    fn = "rank_weak_domains" =>
        LET scores == args.domain_scores
            ranked == ret.value
        IN  /\ ret.raised = "None"
            /\ Len(ranked) = Len(scores)
            /\ \A i \in DOMAIN scores :
                 \E j \in DOMAIN ranked :
                    /\ ranked[j] = [domain |-> scores[i].domain,
                                    weakness |-> 400 - scores[i].score]
                    /\ \A h \in DOMAIN ranked : ranked[h].domain = scores[i].domain => h = j
            /\ \A j \in 1..(Len(ranked) - 1) : ranked[j].weakness >= ranked[j + 1].weakness

\* The map lists the stronger domain first: the ranking puts it second.
C9_Witness ==
    /\ fn = "rank_weak_domains"
    /\ Len(args.domain_scores) = 2
    /\ args.domain_scores[1].score > args.domain_scores[2].score
    /\ ret.value[1].domain = args.domain_scores[2].domain
    /\ ret.value[1].weakness > ret.value[2].weakness

-----------------------------------------------------------------------------
(* C10 *)

\* C10, as claimed: generate_recommendations returns exactly 4 strings when
\* the maturity map has at least two domains and exactly 2 when it has one,
\* for every grouping the engine accepts.
C10_FourOrTwoAlways ==
    (fn = "generate_recommendations" /\ Len(args.domain_scores) >= 1) =>
        /\ ret.raised = "None"
        /\ Len(ret.value) = IF Len(args.domain_scores) >= 2 THEN 4 ELSE 2

\* The domains generate_recommendations selects: the first two of the
\* ranking, or its only one.
Selected(domain_scores) ==
    LET ranked == rank_weak_domains(domain_scores)
    IN  {ranked[j].domain : j \in 1..(IF Len(ranked) >= 2 THEN 2 ELSE Len(ranked))}

\* C10, amended: generate_recommendations returns exactly two strings for
\* each selected domain that is one of Identify, Protect, Detect, Respond,
\* Recover, and none for a selected domain of any other name: 4 strings
\* when the map has at least two domains and 2 when it has one, provided the
\* selected domains are among those five.
C10_TwoPerKnownDomain ==
    (fn = "generate_recommendations" /\ Len(args.domain_scores) >= 1) =>
        /\ ret.raised = "None"
        /\ Len(ret.value) = 2 * Cardinality(Selected(args.domain_scores) \cap ReferenceDomains)
        /\ Selected(args.domain_scores) \subseteq ReferenceDomains =>
             Len(ret.value) = IF Len(args.domain_scores) >= 2 THEN 4 ELSE 2

C10_Witness ==
    /\ fn = "generate_recommendations"
    /\ Len(args.domain_scores) = 2
    /\ Selected(args.domain_scores) = {"Identify", "Protect"}
    /\ Len(ret.value) = 4

-----------------------------------------------------------------------------
(* C11 *)

\* The first two domains of a ranking, or its only one.
TopTwo(ranked) == {ranked[j].domain : j \in 1..(IF Len(ranked) >= 2 THEN 2 ELSE Len(ranked))}

ScoreOf(domain_scores, d) ==
    domain_scores[CHOOSE i \in DOMAIN domain_scores : domain_scores[i].domain = d].score

\* C11: the recommendation list run_assessment returns is the fixed pair of
\* strings of the first domain of weak_domain_ranking followed by the pair of
\* the second (only the first when there is a single domain); no string of a
\* domain ranked third or lower appears in it, and no selected domain has a
\* strictly smaller weakness than an unselected one.
C11_RecommendationsFollowRanking ==
    (IsRun /\ ret.raised = "None") =>
        LET ranked == ret.value.weak_domain_ranking
            recs   == ret.value.recommendations
            scores == ret.value.domain_scores
        IN  /\ Len(ranked) >= 1
            /\ recs = IF Len(ranked) >= 2
                      THEN Recs(ranked[1].domain) \o Recs(ranked[2].domain)
                      ELSE Recs(ranked[1].domain)
            /\ \A j \in 3..Len(ranked) :
                 \A i \in DOMAIN Recs(ranked[j].domain), h \in DOMAIN recs :
                    recs[h] # Recs(ranked[j].domain)[i]
            /\ \A d \in TopTwo(ranked), e \in Domains(scores) \ TopTwo(ranked) :
                 400 - ScoreOf(scores, d) >= 400 - ScoreOf(scores, e)

\* Five domains, the last the weakest and the third next: their two pairs,
\* in that order.
C11_Witness ==
    /\ IsRun
    /\ ret.raised = "None"
    /\ Len(ret.value.weak_domain_ranking) = 5
    /\ ret.value.weak_domain_ranking[1].domain = "Recover"
    /\ ret.value.weak_domain_ranking[2].domain = "Detect"
    /\ ret.value.weak_domain_ranking[2].weakness > ret.value.weak_domain_ranking[3].weakness
    /\ ret.value.recommendations = Recs("Recover") \o Recs("Detect")

-----------------------------------------------------------------------------
(* C12 *)

\* The catalogue answered 0 throughout domain i and 4 everywhere else, no
\* weight map.
OneDomainZero(i) ==
    /\ IsRun
    /\ args.domain_question_ids = DOMAIN_QUESTION_IDS
    /\ args.responses =
         PerDomain(DOMAIN_QUESTION_IDS,
                   [j \in DOMAIN DOMAIN_QUESTION_IDS |-> IF j = i THEN 0 ELSE 4])
    /\ args.domain_weights.none

AllFactors(k) == ContextComplete(args.context) /\ \A f \in FactorNames : args.context[f] = k

\* C12: with the five reference domains of four questions each and uniform
\* weights, if exactly one domain has all ratings 0 and the other four all
\* ratings 4, likelihood is 0.80 and that domain is ranked first with
\* weakness 4; if in addition all four factors are 4, impact is 4.00, the
\* risk score 3.20 and the band "Low".
C12_OneWeakDomain ==
    \A i \in DOMAIN DOMAIN_QUESTION_IDS :
        (OneDomainZero(i) /\ ContextComplete(args.context)) =>
            /\ ret.raised = "None"
            /\ Len(DOMAIN_QUESTION_IDS) = 5
            /\ \A j \in DOMAIN DOMAIN_QUESTION_IDS : Len(DOMAIN_QUESTION_IDS[j].qids) = 4
            /\ ret.value.likelihood = 80
            /\ ret.value.weak_domain_ranking[1] =
                 [domain |-> DOMAIN_QUESTION_IDS[i].domain, weakness |-> 400]
            /\ AllFactors(4) =>
                 /\ ret.value.impact = 400
                 /\ ret.value.risk_score = 320
                 /\ ret.value.risk_band = "Low"

C12_Witness ==
    /\ OneDomainZero(3)
    /\ AllFactors(4)
    /\ ret.raised = "None"
    /\ ret.value.likelihood = 80
    /\ ret.value.risk_score = 320
    /\ ret.value.weak_domain_ranking[1].domain = "Detect"

-----------------------------------------------------------------------------
(* C13 *)

\* Position of domain d in a sequence of records with a domain field.
PositionOf(seq, d) == CHOOSE i \in DOMAIN seq : seq[i].domain = d

\* Domains of equal weakness keep the order they have in `order`.
TiesKeepOrder(ranked, order) ==
    \A i, j \in DOMAIN ranked :
        (i < j /\ ranked[i].weakness = ranked[j].weakness)
        => PositionOf(order, ranked[i].domain) < PositionOf(order, ranked[j].domain)

\* The catalogue with every rating 2 and every factor 2, no weight map.
AllTwos ==
    /\ IsRun
    /\ args.domain_question_ids = DOMAIN_QUESTION_IDS
    /\ args.responses = Constant(DOMAIN_QUESTION_IDS, 2)
    /\ AllFactors(2)
    /\ args.domain_weights.none

\* C13: domains of equal weakness appear in the ranking in the iteration
\* order of the grouping (of the maturity map, for rank_weak_domains itself):
\* the sort is stable.  Hence the catalogue with every rating 2 and every
\* factor 2 gives every maturity 2.00, likelihood 2.00, impact 2.00, risk
\* score 4.00, band "Medium", the ranking Identify, Protect, Detect, Respond,
\* Recover each at weakness 2.00, and as the 4 recommendations the Identify
\* pair followed by the Protect pair.
C13_StableRanking ==
    /\ fn = "rank_weak_domains" => TiesKeepOrder(ret.value, args.domain_scores)
    /\ (IsRun /\ ret.raised = "None") =>
         TiesKeepOrder(ret.value.weak_domain_ranking, args.domain_question_ids)
    /\ AllTwos =>
         /\ ret.raised = "None"
         /\ ret.value.domain_scores =
              [i \in 1..5 |-> [domain |-> ReferenceOrder[i], score |-> 200]]
         /\ ret.value.likelihood = 200
         /\ ret.value.impact = 200
         /\ ret.value.risk_score = 400
         /\ ret.value.risk_band = "Medium"
         /\ ret.value.weak_domain_ranking =
              [i \in 1..5 |-> [domain |-> ReferenceOrder[i], weakness |-> 200]]
         /\ Len(ret.value.recommendations) = 4
         /\ ret.value.recommendations = Recs("Identify") \o Recs("Protect")

C13_Witness ==
    /\ AllTwos
    /\ ret.raised = "None"
    /\ ret.value.weak_domain_ranking[1].domain = "Identify"
    /\ ret.value.weak_domain_ranking[5].domain = "Recover"
    /\ ret.value.weak_domain_ranking[1].weakness = ret.value.weak_domain_ranking[5].weakness

-----------------------------------------------------------------------------
(* C14 *)

\* What the engine returns for the widget values of s.
EngineOutputs(s) ==
    {run_assessment(s.responses, DOMAIN_QUESTION_IDS, s.ctx, None, "down", tie).value :
        tie \in TieModes}

\* The step is a click of the button: time passes and no widget moves.
Clicked ==
    /\ session'.now = session.now + 1
    /\ session'.tab = session.tab
    /\ session'.template_choice = session.template_choice
    /\ session'.ctx = session.ctx
    /\ session'.responses = session.responses

\* A click stores the engine's output and the time; any other step stores
\* nothing.
StoredOnlyAtClick ==
    IF Clicked
    THEN /\ ~session'.result.none
         /\ session'.result.some \in EngineOutputs(session)
         /\ session'.last_calculated = Some(session'.now)
    ELSE /\ session'.result = session.result
         /\ session'.last_calculated = session.last_calculated

\* C14: in a session the stored result is None until the first click of
\* "Calculate risk score"; a click stores run_assessment of the ratings and
\* the context of that moment, and the time; a moved question slider, a
\* moved context slider, a chosen template and an opened tab leave the
\* stored result and last_calculated as they were.  So the result shown
\* and exported is the engine's output for the inputs of the latest click.
C14_ResultCachedAtClick ==
    /\ session.result = Nothing
    /\ session.last_calculated = Nothing
    /\ [][StoredOnlyAtClick]_vars

\* A result was stored, the sliders and the template were changed since,
\* and the export pairs the stored result with inputs it does not belong to.
C14_Witness ==
    LET payload == export_payload(session)
    IN  /\ ~payload.result.none
        /\ ~payload.last_calculated_utc.none
        /\ payload.last_calculated_utc.some < session.now
        /\ payload.responses # InitialSession.responses
        /\ payload.charity_context # InitialSession.ctx
        /\ payload.result.some \notin EngineOutputs(session)

-----------------------------------------------------------------------------
(* C15 *)

\* The questions rated differently by r1 and r2.
Differing(r1, r2) == {q \in DOMAIN r1 : r1[q] # r2[q]}

\* b is the input a with the rating of exactly one question, q, higher.
RaisedAt(a, b, q) ==
    /\ b.domain_question_ids = a.domain_question_ids
    /\ b.context = a.context
    /\ b.domain_weights = a.domain_weights
    /\ DOMAIN b.responses = DOMAIN a.responses
    /\ Differing(a.responses, b.responses) = {q}
    /\ b.responses[q] > a.responses[q]

\* A valid response set with uniform weights.
Valid(a) ==
    /\ Proper(a.domain_question_ids)
    /\ DOMAIN a.responses = QidsOf(a.domain_question_ids)
    /\ \A q \in DOMAIN a.responses : a.responses[q] \in InRange
    /\ ContextComplete(a.context)
    /\ \A f \in FactorNames : a.context[f] \in InRange
    /\ a.domain_weights = None

\* The domain question q belongs to.
DomainOf(g, q) ==
    g[CHOOSE i \in DOMAIN g : \E j \in DOMAIN g[i].qids : g[i].qids[j] = q].domain

BandRank(band) == IF band = "Low" THEN 0 ELSE IF band = "Medium" THEN 1 ELSE 2

\* The current call is a run that follows a run on the same input with one
\* rating lower.
ComparedRuns ==
    /\ IsRun
    /\ before.fn = "run_assessment"
    /\ Valid(before.args)
    /\ \E q \in DOMAIN args.responses : RaisedAt(before.args, args, q)

\* C15: risk is monotone in the ratings.  Of two valid response sets over
\* the same grouping and context, without weights, the second being the
\* first with one question rated higher: both runs return, and the second
\* result has the maturity of that question's domain at least the first's,
\* the likelihood at most the first's, the risk score at most the first's
\* and a risk band no higher than the first's (Low < Medium < High).
C15_RiskMonotone ==
    ComparedRuns =>
        LET q == CHOOSE q \in DOMAIN args.responses : RaisedAt(before.args, args, q)
            d == DomainOf(args.domain_question_ids, q)
            first  == before.ret.value
            second == ret.value
        IN  /\ before.ret.raised = "None"
            /\ ret.raised = "None"
            /\ ScoreOf(second.domain_scores, d) >= ScoreOf(first.domain_scores, d)
            /\ second.likelihood <= first.likelihood
            /\ second.risk_score <= first.risk_score
            /\ BandRank(second.risk_band) <= BandRank(first.risk_band)

\* Of two domains, one rating raised: the maturity of its domain rises,
\* the likelihood and the risk score fall, and the band goes from High to
\* Medium.
C15_Witness ==
    /\ ComparedRuns
    /\ Len(args.domain_question_ids) = 2
    /\ \E q \in DOMAIN args.responses :
         /\ RaisedAt(before.args, args, q)
         /\ ScoreOf(ret.value.domain_scores, DomainOf(args.domain_question_ids, q))
              > ScoreOf(before.ret.value.domain_scores, DomainOf(args.domain_question_ids, q))
    /\ ret.value.likelihood < before.ret.value.likelihood
    /\ ret.value.risk_score < before.ret.value.risk_score
    /\ before.ret.value.risk_band = "High"
    /\ ret.value.risk_band = "Medium"

====
